---- MODULE Spec2Model ----
(***************************************************************************)
(* The normalization engine of Normalization_Engine                        *)
(* (backend/app/services/normalization_engine.py), with the table model,   *)
(* the analysis-result model and the statistical dependency detector it    *)
(* calls.  A caller builds a Table, constructs a NormalizationEngine on it *)
(* and calls analyze() once or several times.                              *)
(* The web application (backend/app/routes) runs the engine on uploaded    *)
(* workbooks and keeps the results in analysis_cache.                      *)
(*                                                                         *)
(* Python strings are sequences of one-character strings, so that rstrip   *)
(* and the "<" of str are computed and not assumed.  Table objects live in *)
(* a heap (a sequence indexed by object id), so that two references to one *)
(* object are told apart from two equal objects.                           *)
(***************************************************************************)
EXTENDS Integers, Sequences, FiniteSets, TLC

VARIABLES
    heap,            \* object id -> Table; heap[1] is the object the caller holds
    input,           \* the caller's Table as the caller built it (value, never updated)
    pc,              \* "new": table built; "ready": engine constructed
    original_table,  \* NormalizationEngine.original_table (object id, 0 before __init__)
    current_tables,  \* NormalizationEngine.current_tables (sequence of object ids)
    result,          \* <<>> or <<the AnalysisResult of the latest analyze()>>
    hash_order,      \* the set iteration order of the process, <<>> until analyze() lists a set
    detection,       \* <<>> or <<what detect_all_dependencies last returned>>
    improved,        \* <<>> or <<what the improved detector returned to the caller>>
    hypotheses,      \* the scored FDs a caller hands to a method of a detector
    unique_fds,      \* <<>> or <<what _remove_redundant_fds returned>>
    classified_1nf,  \* <<>> or <<what _is_1nf returned on the table>>
    reported_1nf,    \* <<>> or <<the violations of the step _normalize_to_1nf returned>>
    closure_start,   \* the column set the key search of method 3 starts from
    closure,         \* <<>> or <<the set the closure loop of method 3 ended with>>
    upload_folder,   \* the file ids of the files in UPLOAD_FOLDER
    output_folder,   \* the paths <<file_id, suffix, extension>> of the files in OUTPUT_FOLDER
    analysis_cache,  \* analysis_routes.analysis_cache: analysis id -> entry
    requests,        \* the HTTP requests received, each with its handler's position
    runs             \* number of analyze() calls made on the engine

vars == <<heap, input, pc, original_table, current_tables, result, hash_order,
         detection, improved, hypotheses, unique_fds, classified_1nf, reported_1nf,
         closure_start, closure, upload_folder, output_folder, analysis_cache,
         requests, runs>>

\* What the calls made on a single method of the engine have returned.
direct_calls == <<classified_1nf, reported_1nf, closure_start, closure>>

\* What the web application holds.
server == <<upload_folder, output_folder, analysis_cache, requests>>

\* What a caller of the engine and of the detectors holds.
library == <<heap, input, pc, original_table, current_tables, result, hash_order,
             detection, improved, hypotheses, unique_fds, runs, direct_calls>>

-----------------------------------------------------------------------------
(* Bounds of the model *)

MaxRecords == 3   \* FD + candidate-key + MVD records preset on an input table
MaxRows == 3      \* sample rows of an input table that carries data
MaxRuns == 2      \* analyze() calls on one engine
MaxHypotheses == 3   \* scored FDs handed to _remove_redundant_fds
MaxSampleRows == 21  \* rows of a table handed to the 1NF classifier and transition
MaxChainColumns == 12   \* columns of a table whose FDs form one chain or one cycle
MaxRequests == 2        \* HTTP requests the application receives

-----------------------------------------------------------------------------
(* Generic helpers *)

Range(s) == {s[i] : i \in DOMAIN s}

Min(x, y) == IF x < y THEN x ELSE y

\* All sequences over S of length at most n.
SeqsUpTo(S, n) == UNION {[1..k -> S] : k \in 0..n}

\* The orders in which Python may iterate over a set of strings: the hash
\* seed of the process decides, so every permutation of the names is possible.
SetOrders(S) ==
    {p \in [1..Cardinality(S) -> S] : \A i, j \in DOMAIN p : p[i] = p[j] => i = j}

\* list(S) under the iteration order ord.
ListOf(S, ord) == LET In(x) == x \in S IN SelectSeq(ord, In)

RECURSIVE Flatten(_)
Flatten(ss) == IF ss = <<>> THEN <<>> ELSE Head(ss) \o Flatten(Tail(ss))

-----------------------------------------------------------------------------
(* Python str *)

\* ord() of the characters that occur in NormalForm values.
Ord(c) ==
    CASE c = "1" -> 49 [] c = "2" -> 50 [] c = "3" -> 51 [] c = "4" -> 52
      [] c = "5" -> 53 [] c = "B" -> 66 [] c = "C" -> 67 [] c = "F" -> 70
      [] c = "N" -> 78 [] c = "U" -> 85 [] c = "a" -> 97 [] c = "d" -> 100
      [] c = "e" -> 101 [] c = "i" -> 105 [] c = "l" -> 108 [] c = "m" -> 109
      [] c = "n" -> 110 [] c = "o" -> 111 [] c = "r" -> 114 [] c = "z" -> 122

\* s < t on Python strings: lexicographic on code points.
RECURSIVE StrLess(_, _)
StrLess(s, t) ==
    IF t = <<>> THEN FALSE
    ELSE IF s = <<>> THEN TRUE
    ELSE IF Ord(s[1]) < Ord(t[1]) THEN TRUE
    ELSE IF Ord(s[1]) > Ord(t[1]) THEN FALSE
    ELSE StrLess(Tail(s), Tail(t))

StripChars == {"0", "1", "2", "3", "4", "5", "6", "7", "8", "9", "_"}

\* name.rstrip('0123456789_')
RECURSIVE rstrip(_)
rstrip(s) ==
    IF s = <<>> THEN s
    ELSE IF s[Len(s)] \in StripChars THEN rstrip(SubSeq(s, 1, Len(s) - 1))
    ELSE s

\* len(value.split(','))
SplitCount(s) == Cardinality({i \in DOMAIN s : s[i] = ","}) + 1

-----------------------------------------------------------------------------
(* analysis_result.py: NormalForm *)

NormalForm ==
    {"UNNORMALIZED", "FIRST_NF", "SECOND_NF", "THIRD_NF", "BCNF", "FOURTH_NF", "FIFTH_NF"}

\* NormalForm.<member>.value
NFValue(nf) ==
    CASE nf = "UNNORMALIZED" -> <<"U", "n", "n", "o", "r", "m", "a", "l", "i", "z", "e", "d">>
      [] nf = "FIRST_NF" -> <<"1", "N", "F">>
      [] nf = "SECOND_NF" -> <<"2", "N", "F">>
      [] nf = "THIRD_NF" -> <<"3", "N", "F">>
      [] nf = "BCNF" -> <<"B", "C", "N", "F">>
      [] nf = "FOURTH_NF" -> <<"4", "N", "F">>
      [] nf = "FIFTH_NF" -> <<"5", "N", "F">>

\* The tests of analyze(): current_nf.value < NormalForm.X.value
ValueLess(nf, target) == StrLess(NFValue(nf), NFValue(target))

-----------------------------------------------------------------------------
(* table_model.py *)

\* FunctionalDependency / MultiValuedDependency; confidence is the fraction
\* <<numerator, denominator>>, 1.0 by default.
Dep(det, dep) == [determinant |-> det, dependent |-> dep, confidence |-> <<1, 1>>]

\* Table(name, columns, primary_key): the other fields take their defaults.
\* A Column is modelled by its name; rows map column names to cell values.
\* foreign_keys is the dict column -> (ref_table, ref_column) as the set of
\* its entries [column, ref_table, ref_column]; no code of the engine or of
\* the detectors writes it.
Table(name, columns, primary_key) ==
    [name |-> name, columns |-> columns, primary_key |-> primary_key,
     candidate_keys |-> <<>>, foreign_keys |-> {},
     functional_dependencies |-> <<>>, multi_valued_dependencies |-> <<>>,
     data |-> <<>>]

get_column_names(table) == table.columns

\* Table.get_column(name): the column, or None; here its truth value.
get_column(table, name) == name \in Range(table.columns)

-----------------------------------------------------------------------------
(* normalization_engine.py: the classifier.  Each predicate is evaluated on *)
(* table = self.current_tables[0].                                          *)

FirstNFSampleRows == 10

\* A cell value is [kind, text]: kind "str" is a Python str, "scalar" any
\* other scalar (text is its str()), "list" a list, dict or set.
IsCollection(value) == value.kind = "list"

\* The test of _is_1nf on one sampled value.
NonAtomic(value) ==
    \/ IsCollection(value)
    \/ /\ value.kind = "str"
       /\ "," \in Range(value.text)
       /\ SplitCount(value.text) > 2

_is_1nf(table) ==
    LET col_names == get_column_names(table)
        rows == SubSeq(table.data, 1, Min(FirstNFSampleRows, Len(table.data)))
    IN  \* a base name seen twice ends the loop with False
        /\ Cardinality({rstrip(col_names[i]) : i \in DOMAIN col_names}) = Len(col_names)
        /\ \A r \in DOMAIN rows : \A c \in DOMAIN rows[r] : ~ NonAtomic(rows[r][c])

\* The partial-dependency test shared by _is_2nf and _normalize_to_2nf.
IsPartialDependency(table, fd) ==
    /\ fd.determinant \subseteq table.primary_key
    /\ fd.determinant # table.primary_key
    /\ ~ \E k \in DOMAIN table.candidate_keys :
            fd.dependent \subseteq table.candidate_keys[k]

\* any(key.issubset(fd.determinant) for key in table.candidate_keys)
IsSuperkey(table, fd) ==
    \E k \in DOMAIN table.candidate_keys :
        table.candidate_keys[k] \subseteq fd.determinant

\* IsTransitiveDependency as it would be if a table without candidate keys
\* were exempted from the test.
IsTransitiveDependencyOfKeyedTable(table, fd) ==
    /\ table.candidate_keys # <<>>
    /\ ~ IsSuperkey(table, fd)
    /\ ~ \E k \in DOMAIN table.candidate_keys :
            \E dep \in fd.dependent : dep \in table.candidate_keys[k]

\* The transitive-dependency test shared by _is_3nf and _normalize_to_3nf.
IsTransitiveDependency(table, fd) ==
    /\ ~ IsSuperkey(table, fd)
    /\ ~ \E k \in DOMAIN table.candidate_keys :
            \E dep \in fd.dependent : dep \in table.candidate_keys[k]

_is_2nf(table) ==
    IF ~ _is_1nf(table) THEN FALSE
    ELSE IF Cardinality(table.primary_key) <= 1 THEN TRUE
    ELSE \A f \in DOMAIN table.functional_dependencies :
            ~ IsPartialDependency(table, table.functional_dependencies[f])

_is_3nf(table) ==
    IF ~ _is_2nf(table) THEN FALSE
    ELSE \A f \in DOMAIN table.functional_dependencies :
            ~ IsTransitiveDependency(table, table.functional_dependencies[f])

_is_bcnf(table) ==
    IF ~ _is_3nf(table) THEN FALSE
    ELSE \A f \in DOMAIN table.functional_dependencies :
            IsSuperkey(table, table.functional_dependencies[f])

\* The non-trivial-MVD test of _is_4nf.
IsNonTrivialMVD(table, mvd) ==
    LET all_attrs == Range(get_column_names(table))
    IN  /\ ~ (mvd.dependent \subseteq mvd.determinant)
        /\ (mvd.determinant \cup mvd.dependent) # all_attrs

_is_4nf(table) ==
    IF ~ _is_bcnf(table) THEN FALSE
    ELSE \A m \in DOMAIN table.multi_valued_dependencies :
            ~ IsNonTrivialMVD(table, table.multi_valued_dependencies[m])

_is_5nf(table) ==
    IF ~ _is_4nf(table) THEN FALSE
    ELSE Len(table.multi_valued_dependencies) = 0

\* _determine_current_nf as it would be with the 3NF check left out.
_determine_current_nf_without_3nf(table) ==
    IF ~ _is_1nf(table) THEN "UNNORMALIZED"
    ELSE IF ~ _is_2nf(table) THEN "FIRST_NF"
    ELSE IF ~ _is_bcnf(table) THEN "THIRD_NF"
    ELSE IF ~ _is_4nf(table) THEN "BCNF"
    ELSE IF ~ _is_5nf(table) THEN "FOURTH_NF"
    ELSE "FIFTH_NF"

_determine_current_nf(table) ==
    IF ~ _is_1nf(table) THEN "UNNORMALIZED"
    ELSE IF ~ _is_2nf(table) THEN "FIRST_NF"
    ELSE IF ~ _is_3nf(table) THEN "SECOND_NF"
    ELSE IF ~ _is_bcnf(table) THEN "THIRD_NF"
    ELSE IF ~ _is_4nf(table) THEN "BCNF"
    ELSE IF ~ _is_5nf(table) THEN "FOURTH_NF"
    ELSE "FIFTH_NF"

-----------------------------------------------------------------------------
(* normalization_engine.py: helper methods *)

NonAtomicSampleRows == 20

\* The distinct elements of s, in the order of their first occurrence
\* (the keys of a dict filled in the order of s).
RECURSIVE Dedup(_)
Dedup(s) ==
    IF s = <<>> THEN <<>>
    ELSE LET r == Dedup(SubSeq(s, 1, Len(s) - 1))
         IN  IF s[Len(s)] \in Range(r) THEN r ELSE Append(r, s[Len(s)])

\* [F(s[1]), ..., F(s[n])]
MapSeq(s, F(_)) == [i \in DOMAIN s |-> F(s[i])]

_find_repeating_groups(col_names) ==
    LET Suffixed(name) == rstrip(name) # name
        suffixed == SelectSeq(col_names, Suffixed)
        bases == Dedup(MapSeq(suffixed, rstrip))
        Cols(base) == LET Has(name) == rstrip(name) = base IN SelectSeq(suffixed, Has)
        Repeats(base) == Len(Cols(base)) > 1
        Group(base) == Range(Cols(base))
    IN  MapSeq(SelectSeq(bases, Repeats), Group)

_find_non_atomic_columns(table) ==
    LET rows == SubSeq(table.data, 1, Min(NonAtomicSampleRows, Len(table.data)))
        \* row.items() lists the row in column order
        Flagged(row) == LET Bad(c) == NonAtomic(row[c]) IN SelectSeq(table.columns, Bad)
    IN  Dedup(Flatten(MapSeq(rows, Flagged)))

\* The first element of list(S): list(fd.dependent)[0], list(fd.determinant)[0].
FirstOf(S, ord) == ListOf(S, ord)[1]

\* list(S) where the engine reads no position of the list (a violation's
\* affected_columns, the columns of a created table): the elements of S,
\* here in the order of the source table's columns.
Listed(S, table) == LET In(x) == x \in S IN SelectSeq(table.columns, In)

\* _create_table_from_fd as it would be if the new table kept the primary
\* key of the source table.
_create_table_from_fd_with_source_key(source_table, fd, new_name) ==
    LET new_col_names == Listed(fd.determinant \cup fd.dependent, source_table)
        Exists(name) == get_column(source_table, name)
        new_columns == SelectSeq(new_col_names, Exists)
    IN  Table(new_name, new_columns, source_table.primary_key)

_create_table_from_fd(source_table, fd, new_name) ==
    LET new_col_names == Listed(fd.determinant \cup fd.dependent, source_table)
        Exists(name) == get_column(source_table, name)
        new_columns == SelectSeq(new_col_names, Exists)
    IN  Table(new_name, new_columns, fd.determinant)

-----------------------------------------------------------------------------
(* normalization_engine.py: the transitions.  self is the engine:          *)
(* [heap, current_tables]; each transition yields the NormalizationStep    *)
(* it returns and the heap and self.current_tables it leaves.              *)

\* description holds the fixed head of the message ("Partial dependency"),
\* without the text of the dependency or group formatted after it.
Violation(nf, kind, cols) ==
    [normal_form |-> nf, description |-> kind, affected_columns |-> cols]

NormalizationStep(from, to, violations, tables) ==
    [from_nf |-> from, to_nf |-> to, violations_found |-> violations,
     tables_created |-> tables]

\* The ids of n objects allocated after those of heap h.
NewIds(h, n) == [i \in 1..n |-> Len(h) + i]

_normalize_to_1nf(self, ord) ==
    LET table == self.heap[self.current_tables[1]]
        repeating_groups == _find_repeating_groups(get_column_names(table))
        GroupViolation(group) ==
            Violation("FIRST_NF", "Repeating group detected", Listed(group, table))
        non_atomic == _find_non_atomic_columns(table)
        ColViolation(col) == Violation("FIRST_NF", "Non-atomic values in column", <<col>>)
        violations == MapSeq(repeating_groups, GroupViolation)
                        \o MapSeq(non_atomic, ColViolation)
    IN  [step |-> NormalizationStep("UNNORMALIZED", "FIRST_NF", violations,
                                    self.current_tables),
         heap |-> self.heap,
         current_tables |-> self.current_tables]

\* A decomposing transition whose step holds the list the transition
\* started from.
DecomposedReportingTheOldList(self, from, to, violations, created, new_tables) ==
    [step |-> NormalizationStep(from, to, violations, self.current_tables),
     heap |-> self.heap \o created,
     current_tables |-> IF created # <<>> THEN new_tables ELSE self.current_tables]

\* What a decomposing transition leaves, `created` being the tables it
\* built and new_tables the list it filled: the new objects join the heap
\* and self.current_tables is replaced if new_tables differs from the
\* list it started from (it does when a table was appended).
Decomposed(self, from, to, violations, created, new_tables) ==
    [step |-> NormalizationStep(from, to, violations, new_tables),
     heap |-> self.heap \o created,
     current_tables |-> IF created # <<>> THEN new_tables ELSE self.current_tables]

\* The body of _normalize_to_2nf once the loop has found the FDs `found`
\* of table, the object self.current_tables[0].
Extract2NF(self, table, found, ord) ==
    LET FdViolation(fd) ==
            Violation("SECOND_NF", "Partial dependency",
                      Listed(fd.determinant \cup fd.dependent, table))
        NewTable(fd) ==
            _create_table_from_fd(table, fd,
                table.name \o <<"_">> \o FirstOf(fd.dependent, ord))
    IN  Decomposed(self, "FIRST_NF", "SECOND_NF", MapSeq(found, FdViolation),
                   MapSeq(found, NewTable),
                   <<self.current_tables[1]>> \o NewIds(self.heap, Len(found)))

PartialDependencies(table) ==
    LET Partial(fd) == IsPartialDependency(table, fd)
    IN  IF Cardinality(table.primary_key) > 1
        THEN SelectSeq(table.functional_dependencies, Partial)
        ELSE <<>>

_normalize_to_2nf(self, ord) ==
    Extract2NF(self, self.heap[self.current_tables[1]],
               PartialDependencies(self.heap[self.current_tables[1]]), ord)

\* The (table, fd) pairs the loops of _normalize_to_3nf find, in loop order.
TransitiveDependencies(self) ==
    LET Found(id) ==
            LET Transitive(fd) == IsTransitiveDependency(self.heap[id], fd)
                Pair(fd) == [table |-> self.heap[id], fd |-> fd]
            IN  MapSeq(SelectSeq(self.heap[id].functional_dependencies, Transitive), Pair)
    IN  Flatten(MapSeq(self.current_tables, Found))

\* The body of _normalize_to_3nf once the loops have found the pairs `found`.
Extract3NF(self, found, ord) ==
    LET FdViolation(p) ==
            Violation("THIRD_NF", "Transitive dependency",
                      Listed(p.fd.determinant \cup p.fd.dependent, p.table))
        NewTable(p) ==
            _create_table_from_fd(p.table, p.fd,
                p.table.name \o <<"_">> \o FirstOf(p.fd.determinant, ord)
                    \o <<"_", "d", "e", "t", "a", "i", "l", "s">>)
    IN  Decomposed(self, "SECOND_NF", "THIRD_NF", MapSeq(found, FdViolation),
                   MapSeq(found, NewTable),
                   self.current_tables \o NewIds(self.heap, Len(found)))

_normalize_to_3nf_reporting_only(self, ord) ==
    LET FdViolation(p) ==
            Violation("THIRD_NF", "Transitive dependency",
                      Listed(p.fd.determinant \cup p.fd.dependent, p.table))
    IN  [step |-> NormalizationStep("SECOND_NF", "THIRD_NF",
                      MapSeq(TransitiveDependencies(self), FdViolation),
                      self.current_tables),
         heap |-> self.heap,
         current_tables |-> self.current_tables]

_normalize_to_3nf(self, ord) == Extract3NF(self, TransitiveDependencies(self), ord)

_normalize_to_bcnf(self, ord) ==
    [step |-> NormalizationStep("THIRD_NF", "BCNF", <<>>, self.current_tables),
     heap |-> self.heap,
     current_tables |-> self.current_tables]

_normalize_to_4nf(self, ord) ==
    LET Found(id) ==
            LET table == self.heap[id]
                MvdViolation(mvd) ==
                    Violation("FOURTH_NF", "Multi-valued dependency",
                              Listed(mvd.determinant \cup mvd.dependent, table))
            IN  MapSeq(table.multi_valued_dependencies, MvdViolation)
        violations == Flatten(MapSeq(self.current_tables, Found))
    IN  [step |-> NormalizationStep("BCNF", "FOURTH_NF", violations, self.current_tables),
         heap |-> self.heap,
         current_tables |-> self.current_tables]

_normalize_to_5nf(self, ord) ==
    [step |-> NormalizationStep("FOURTH_NF", "FIFTH_NF", <<>>, self.current_tables),
     heap |-> self.heap,
     current_tables |-> self.current_tables]

-----------------------------------------------------------------------------
(* normalization_engine.py: analyze() *)

AnalysisResult(original, current_nf, steps, final) ==
    [original_table |-> original, current_normal_form |-> current_nf,
     target_normal_form |-> "FIFTH_NF", normalization_steps |-> steps,
     final_tables |-> final]

\* AnalysisResult.is_fully_normalized
is_fully_normalized(self) ==
    IF self.normalization_steps = <<>>
    THEN FALSE
    ELSE self.normalization_steps[Len(self.normalization_steps)].to_nf
             = self.target_normal_form

\* The engine after "result.normalization_steps.append(step); current_nf =
\* target", r being what the transition returned and left.
Appended(st, target, r) ==
    [heap |-> r.heap, current_tables |-> r.current_tables,
     current_nf |-> target, steps |-> Append(st.steps, r.step)]

\* One "if current_nf.value < NormalForm.X.value:" block of analyze().  st is
\* the engine with the local current_nf and the steps appended so far.
Transition(st, target, Normalize(_)) ==
    IF ValueLess(st.current_nf, target)
    THEN Appended(st, target,
                  Normalize([heap |-> st.heap, current_tables |-> st.current_tables]))
    ELSE st

\* The six blocks of analyze(), from the classified level on.
Transitions(s0, ord) ==
    LET To1(s) == _normalize_to_1nf(s, ord)
        To2(s) == _normalize_to_2nf(s, ord)
        To3(s) == _normalize_to_3nf(s, ord)
        ToB(s) == _normalize_to_bcnf(s, ord)
        To4(s) == _normalize_to_4nf(s, ord)
        To5(s) == _normalize_to_5nf(s, ord)
    IN  Transition(
          Transition(
            Transition(
              Transition(
                Transition(
                  Transition(s0, "FIRST_NF", To1),
                  "SECOND_NF", To2),
                "THIRD_NF", To3),
              "BCNF", ToB),
            "FOURTH_NF", To4),
          "FIFTH_NF", To5)

\* "result.final_tables = self.current_tables; return result"
Returned(original, classified, st) ==
    [result |-> AnalysisResult(original, classified, st.steps, st.current_tables),
     heap |-> st.heap,
     current_tables |-> st.current_tables]

Classified(self, original, classified, ord) ==
    Returned(original, classified,
             Transitions([heap |-> self.heap, current_tables |-> self.current_tables,
                          current_nf |-> classified, steps |-> <<>>], ord))

analyze(self, original, ord) ==
    Classified(self, original,
               _determine_current_nf(self.heap[self.current_tables[1]]), ord)

-----------------------------------------------------------------------------
(* ai_dependency_detector.py.  df is the DataFrame of table.data: its      *)
(* rows, each a function from column name to cell value; columns is        *)
(* list(df.columns).  A confidence is the exact fraction <<num, den>> in   *)
(* lowest terms.                                                           *)

ThresholdNum == 85
ThresholdDen == 100
MaxDetSize == 2
MaxKeySize == 4
MinRows == 2

RECURSIVE GCD(_, _)
GCD(x, y) == IF y = 0 THEN x ELSE GCD(y, x % y)

Fraction(num, den) ==
    IF num = 0 THEN <<0, 1>> ELSE <<num \div GCD(num, den), den \div GCD(num, den)>>

\* confidence >= self.confidence_threshold
MeetsThreshold(conf) == conf[1] * ThresholdDen >= ThresholdNum * conf[2]

\* c1 > c2
ConfGreater(c1, c2) == c1[1] * c2[2] > c2[1] * c1[2]

\* '_'.join(parts)
RECURSIVE Join(_)
Join(parts) ==
    IF parts = <<>> THEN <<>>
    ELSE IF Len(parts) = 1 THEN parts[1]
    ELSE parts[1] \o <<"_">> \o Join(Tail(parts))

\* df[cols].astype(str).agg('_'.join, axis=1), for one row
RowKey(row, cols) == LET Str(c) == row[c].text IN Join(MapSeq(cols, Str))

\* itertools.combinations(s, k), in its order
RECURSIVE combinations(_, _)
combinations(s, k) ==
    IF k = 0 THEN << <<>> >>
    ELSE IF Len(s) < k THEN <<>>
    ELSE LET With(c) == <<s[1]>> \o c
         IN  MapSeq(combinations(Tail(s), k - 1), With) \o combinations(Tail(s), k)

\* The score of _calculate_fd_confidence once the keys are built: det_key
\* and combined_key map each row to its key, dep_vals to the dependent values.
FdConfidence(det_key, combined_key, dep_vals) ==
    LET unique_det == Cardinality(Range(det_key))
        unique_combined == Cardinality(Range(combined_key))
        \* df[det_key == det_val][dependent].drop_duplicates(): raw values
        DepVals(det_val) == {dep_vals[r] : r \in {q \in DOMAIN det_key : det_key[q] = det_val}}
        violations == Cardinality({v \in Range(det_key) : Cardinality(DepVals(v)) > 1})
    IN  IF unique_det = 0 THEN <<0, 1>>
        ELSE \* (unique_det / unique_combined) * (1 - violations / unique_det), at most 1.0
             LET num == unique_det * (unique_det - violations)
                 den == unique_combined * unique_det
             IN  IF num > den THEN <<1, 1>> ELSE Fraction(num, den)

_calculate_fd_confidence(df, determinant, dependent) ==
    FdConfidence([r \in DOMAIN df |-> RowKey(df[r], determinant)],
                 [r \in DOMAIN df |->
                     RowKey(df[r], determinant) \o <<"_">> \o RowKey(df[r], dependent)],
                 [r \in DOMAIN df |-> [c \in Range(dependent) |-> df[r][c]]])

\* The second pass of _remove_redundant_fds over order[1..n]: unique_fds
\* as the sequence of its values in key-insertion order.
RECURSIVE UniqueFdsKeepingLatest(_)
RECURSIVE UniqueFds(_)
UniqueFdsKeepingLatest(fds) ==
    IF fds = <<>> THEN <<>>
    ELSE LET prev == UniqueFdsKeepingLatest(SubSeq(fds, 1, Len(fds) - 1))
             fd == fds[Len(fds)]
             Same(i) == /\ prev[i].determinant = fd.determinant
                        /\ prev[i].dependent = fd.dependent
         IN  IF \E i \in DOMAIN prev : Same(i)
             THEN [i \in DOMAIN prev |-> IF Same(i) THEN fd ELSE prev[i]]
             ELSE Append(prev, fd)

UniqueFds(fds) ==
    IF fds = <<>> THEN <<>>
    ELSE LET prev == UniqueFds(SubSeq(fds, 1, Len(fds) - 1))
             fd == fds[Len(fds)]
             Same(i) == /\ prev[i].determinant = fd.determinant
                        /\ prev[i].dependent = fd.dependent
         IN  IF \E i \in DOMAIN prev : Same(i)
             THEN [i \in DOMAIN prev |->
                     IF Same(i) /\ ConfGreater(fd.confidence, prev[i].confidence)
                     THEN fd ELSE prev[i]]
             ELSE Append(prev, fd)

_remove_redundant_fds(fds) ==
    LET NonTrivial(fd) == ~ (fd.dependent \subseteq fd.determinant)
    IN  UniqueFds(SelectSeq(fds, NonTrivial))

_detect_functional_dependencies_of_every_pair(df, columns) ==
    LET Tested(det_cols) ==
            LET Scored(dep_col) ==
                    [determinant |-> Range(det_cols), dependent |-> {dep_col},
                     confidence |-> _calculate_fd_confidence(df, det_cols, <<dep_col>>)]
                Accepted(fd) == MeetsThreshold(fd.confidence)
            IN  SelectSeq(MapSeq(columns, Scored), Accepted)
    IN  Flatten(MapSeq(combinations(columns, 1), Tested))
            \o Flatten(MapSeq(combinations(columns, MaxDetSize), Tested))

_detect_functional_dependencies(df, columns) ==
    LET \* the hypotheses of one determinant, in the order of the inner loop
        Tested(det_cols) ==
            LET Other(dep_col) == dep_col \notin Range(det_cols)
                Scored(dep_col) ==
                    [determinant |-> Range(det_cols), dependent |-> {dep_col},
                     confidence |-> _calculate_fd_confidence(df, det_cols, <<dep_col>>)]
                Accepted(fd) == MeetsThreshold(fd.confidence)
            IN  SelectSeq(MapSeq(SelectSeq(columns, Other), Scored), Accepted)
        single == Flatten(MapSeq(combinations(columns, 1), Tested))
        composite == Flatten(MapSeq(combinations(columns, MaxDetSize), Tested))
    IN  _remove_redundant_fds(single \o composite)

\* The single-column keys of _detect_candidate_keys, in column order.  No
\* cell of the model is null.
SingleKeys(df, columns) ==
    LET SingleKey(col) == Cardinality({df[r][col] : r \in DOMAIN df}) = Len(df)
        Key(col) == {col}
    IN  MapSeq(SelectSeq(columns, SingleKey), Key)

\* The keys of `size` columns it accepts, in the order of combinations().
CompositeKeys(df, columns, size) ==
    LET IsKey(col_combo) ==
            /\ Cardinality({RowKey(df[r], col_combo) : r \in DOMAIN df}) = Len(df)
            /\ \A other_col \in Range(columns) \ Range(col_combo) :
                  MeetsThreshold(_calculate_fd_confidence(df, col_combo, <<other_col>>))
    IN  MapSeq(SelectSeq(combinations(columns, size), IsKey), Range)

\* The composite search: the keys of the first size from `size` to `top`
\* that yields any.
\* "if not candidate_keys" / "if candidate_keys: break": the keys found so
\* far if there are any, else what the next search finds.
OrElse(candidate_keys, searched) ==
    IF candidate_keys # <<>> THEN candidate_keys ELSE searched

RECURSIVE CompositeSearch(_, _, _, _)
CompositeSearch(df, columns, size, top) ==
    IF size > top THEN <<>>
    ELSE OrElse(CompositeKeys(df, columns, size),
                CompositeSearch(df, columns, size + 1, top))

FoundKeysWithCompositesAlways(df, columns) ==
    SingleKeys(df, columns)
        \o CompositeSearch(df, columns, 2, Min(Len(columns), MaxKeySize))

\* candidate_keys as the search leaves it, before the minimality pass.
FoundKeys(df, columns) ==
    OrElse(SingleKeys(df, columns),
           CompositeSearch(df, columns, 2, Min(Len(columns), MaxKeySize)))

\* The minimality pass and the return of _detect_candidate_keys.
MinimalKeys(candidate_keys) ==
    LET IsMinimal(key) ==
            ~ \E o \in DOMAIN candidate_keys :
                candidate_keys[o] # key /\ candidate_keys[o] \subseteq key
        Fallback(minimal_keys) ==
            IF minimal_keys # <<>> THEN minimal_keys ELSE candidate_keys
    IN  Fallback(SelectSeq(candidate_keys, IsMinimal))

\* _detect_candidate_keys as it would be if the search went through every
\* size and its keys were returned as found.
_detect_candidate_keys_of_every_size(df, columns, fds) ==
    LET OfSize(size) == CompositeKeys(df, columns, size)
        sizes == [i \in 1..(Min(Len(columns), MaxKeySize) - 1) |-> i + 1]
    IN  OrElse(SingleKeys(df, columns), Flatten(MapSeq(sizes, OfSize)))

_detect_candidate_keys(df, columns, fds) == MinimalKeys(FoundKeys(df, columns))

\* Whether _calculate_mvd_confidence reaches its mutual-information branch:
\* some partition of the rows by the determinant has two rows or more and
\* more than one value in col_a and in col_b.  Otherwise it returns 0.0.
HasIndependenceEvidence(df, determinant, col_a, col_b) ==
    LET det_key == [r \in DOMAIN df |-> RowKey(df[r], determinant)]
        Subset(det_val) == {r \in DOMAIN df : det_key[r] = det_val}
    IN  \E v \in Range(det_key) :
            /\ Cardinality(Subset(v)) >= 2
            /\ Cardinality({df[r][col_a] : r \in Subset(v)}) > 1
            /\ Cardinality({df[r][col_b] : r \in Subset(v)}) > 1

\* mi_accepts stands for the floating-point outcome of the mutual-information
\* score against the threshold, which the model leaves open.
_detect_multi_valued_dependencies(df, columns, candidate_keys, ord, mi_accepts) ==
    LET ForKey(key) ==
            LET key_list == ListOf(key, ord)
                NotInKey(col) == col \notin key
                other_cols == SelectSeq(columns, NotInKey)
                Accepted(pair) ==
                    HasIndependenceEvidence(df, key_list, pair[1], pair[2]) /\ mi_accepts
                Mvd(pair) == [determinant |-> key, dependent |-> {pair[1]},
                              confidence |-> <<1, 1>>]
            IN  MapSeq(SelectSeq(combinations(other_cols, 2), Accepted), Mvd)
    IN  IF candidate_keys = <<>> THEN <<>>
        ELSE Flatten(MapSeq(candidate_keys, ForKey))

\* The results detect_all_dependencies(table) may return, each a record
\* (functional_dependencies, multi_valued_dependencies, candidate_keys): one
\* per iteration order of the key sets and outcome of the score.
detect_all_dependencies_of_any_table(table) ==
    LET df == table.data
        column_names == table.columns
        functional_deps == _detect_functional_dependencies(df, column_names)
        candidate_keys == _detect_candidate_keys(df, column_names, functional_deps)
    IN  {[fds |-> functional_deps,
          mvds |-> _detect_multi_valued_dependencies(df, column_names,
                       candidate_keys, ord, mi_accepts),
          keys |-> candidate_keys] :
             ord \in SetOrders(Range(column_names)), mi_accepts \in BOOLEAN}

detect_all_dependencies(table) ==
    IF Len(table.data) < MinRows
    THEN {[fds |-> <<>>, mvds |-> <<>>, keys |-> <<>>]}
    ELSE LET df == table.data
             column_names == table.columns
             functional_deps == _detect_functional_dependencies(df, column_names)
             candidate_keys == _detect_candidate_keys(df, column_names, functional_deps)
         IN  \* original_to_cleaned maps each column name to itself
             {[fds |-> functional_deps,
               mvds |-> _detect_multi_valued_dependencies(df, column_names,
                            candidate_keys, ord, mi_accepts),
               keys |-> candidate_keys] :
                  ord \in SetOrders(Range(column_names)), mi_accepts \in BOOLEAN}

-----------------------------------------------------------------------------
(* improved_ai_dependency_detector.py.  Nothing in the repository calls it;  *)
(* a caller hands it the rows and the column names of a table.  An FD is     *)
(* the dict {determinant, dependent, confidence}.                            *)

ImprovedThresholdNum == 90
ImprovedThresholdDen == 100
min_rows_for_analysis == 3
CompositeSkipNum == 8
CompositeSkipDen == 10
ImprovedMaxKeySize == 5
InferredKeyLimit == 6
max_iterations == 10

\* confidence >= self.confidence_threshold
ImprovedMeetsThreshold(conf) ==
    conf[1] * ImprovedThresholdDen >= ImprovedThresholdNum * conf[2]

FracAdd(x, y) == Fraction(x[1] * y[2] + y[1] * x[2], x[2] * y[2])

\* The sum of the fractions f[x], x in S.
RECURSIVE FracSum(_, _)
FracSum(S, f) ==
    IF S = {} THEN <<0, 1>>
    ELSE LET x == CHOOSE y \in S : TRUE
         IN  FracAdd(f[x], FracSum(S \ {x}, f))

\* round(confidence, 3)
Round3(conf) == Fraction((2000 * conf[1] + conf[2]) \div (2 * conf[2]), 1000)

\* The score of _calculate_fd_confidence_improved once the keys are built:
\* det_key maps each row to its determinant key, dep_val to the value of the
\* dependent column (a single column in every call).
ImprovedConfidence(det_key, dep_val) ==
    LET combined_key == [r \in DOMAIN det_key |-> det_key[r] \o <<"_">> \o dep_val[r].text]
        Subset(det_val) == {r \in DOMAIN det_key : det_key[r] = det_val}
        DepVals(det_val) == {dep_val[r] : r \in Subset(det_val)}
        total_checks == Cardinality(Range(det_key))
        violations == Cardinality({v \in Range(det_key) : Cardinality(DepVals(v)) > 1})
        unique_combined == Cardinality(Range(combined_key))
        \* value_counts().iloc[0] / len(subset)
        Count(det_val, value) ==
            Cardinality({r \in Subset(det_val) : dep_val[r] = value})
        MostCommon(det_val) ==
            CHOOSE n \in 1..Len(det_key) :
                /\ \E value \in DepVals(det_val) : Count(det_val, value) = n
                /\ \A value \in DepVals(det_val) : Count(det_val, value) <= n
        consistency_scores ==
            [det_val \in Range(det_key) |->
                Fraction(MostCommon(det_val), Cardinality(Subset(det_val)))]
        Weighted(violation_score, det_coef, avg_consistency) ==
            \* violation_score * 0.4 + det_coef * 0.3 + avg_consistency * 0.3
            FracAdd(Fraction(4 * violation_score[1], 10 * violation_score[2]),
                    FracAdd(Fraction(3 * det_coef[1], 10 * det_coef[2]),
                            Fraction(3 * avg_consistency[1], 10 * avg_consistency[2])))
        AtMostOne(final_confidence) ==
            IF final_confidence[1] > final_confidence[2] THEN <<1, 1>> ELSE final_confidence
        Averaged(sum) == Fraction(sum[1], sum[2] * total_checks)
    IN  IF total_checks = 0 THEN <<0, 1>>
        ELSE AtMostOne(Weighted(Fraction(total_checks - violations, total_checks),
                                Fraction(total_checks, unique_combined),
                                Averaged(FracSum(Range(det_key), consistency_scores))))

_calculate_fd_confidence_improved(df, determinant, dependent) ==
    ImprovedConfidence([r \in DOMAIN df |-> RowKey(df[r], determinant)],
                       [r \in DOMAIN df |-> df[r][dependent[1]]])

\* df[list(cols)] ... nunique()
NUnique(df, cols) == Cardinality({RowKey(df[r], cols) : r \in DOMAIN df})

\* The hypotheses of one determinant that meet the threshold, in the order of
\* the inner loop, each with its rounded confidence.
ImprovedTested(df, columns, det_cols) ==
    LET Other(dep_col) == dep_col \notin Range(det_cols)
        Scored(dep_col) ==
            [determinant |-> Range(det_cols), dependent |-> {dep_col},
             confidence |-> _calculate_fd_confidence_improved(df, det_cols, <<dep_col>>)]
        Accepted(fd) == ImprovedMeetsThreshold(fd.confidence)
        Rounded(fd) == [fd EXCEPT !.confidence = Round3(fd.confidence)]
    IN  MapSeq(SelectSeq(MapSeq(SelectSeq(columns, Other), Scored), Accepted), Rounded)

\* result.sort(key=confidence, reverse=True): stable, highest first.
RECURSIVE SortByConfidence(_)
SortByConfidence(fds) ==
    IF fds = <<>> THEN <<>>
    ELSE LET sorted == SortByConfidence(SubSeq(fds, 1, Len(fds) - 1))
             fd == fds[Len(fds)]
             NotBelow(other) == ~ ConfGreater(fd.confidence, other.confidence)
             Below(other) == ConfGreater(fd.confidence, other.confidence)
         IN  SelectSeq(sorted, NotBelow) \o <<fd>> \o SelectSeq(sorted, Below)

\* ImprovedAIDependencyDetector._remove_redundant_fds
Improved_remove_redundant_fds(fds) ==
    LET NonTrivial(fd) == ~ (fd.dependent \subseteq fd.determinant)
    IN  SortByConfidence(UniqueFds(SelectSeq(fds, NonTrivial)))

\* The hypotheses the two loops of _detect_functional_dependencies_improved
\* collect: `single` is what the first loop found.
ImprovedHypotheses(df, columns, single) ==
    LET Shared(det_cols) ==
            ~ (NUnique(df, det_cols) * CompositeSkipDen > Len(df) * CompositeSkipNum)
        Tested(det_cols) == ImprovedTested(df, columns, det_cols)
    IN  IF 2 * Len(single) < Len(columns)
        THEN single \o Flatten(MapSeq(SelectSeq(combinations(columns, MaxDetSize), Shared), Tested))
        ELSE single

_detect_functional_dependencies_improved(df, columns) ==
    LET Repeats(det_col) == NUnique(df, <<det_col>>) # Len(df)
        Tested(det_col) == ImprovedTested(df, columns, <<det_col>>)
    IN  Improved_remove_redundant_fds(
            ImprovedHypotheses(df, columns,
                               Flatten(MapSeq(SelectSeq(columns, Repeats), Tested))))

\* Whether col_combo determines every other column by the confidence score.
DeterminesAll(df, columns, col_combo) ==
    \A other_col \in Range(columns) \ Range(col_combo) :
        ImprovedMeetsThreshold(
            _calculate_fd_confidence_improved(df, col_combo, <<other_col>>))

\* Methods 1 and 2 of _detect_candidate_keys_improved for one size.
ImprovedKeysOfSize(df, columns, size) ==
    LET IsKey(col_combo) ==
            /\ NUnique(df, col_combo) = Len(df)
            /\ DeterminesAll(df, columns, col_combo)
    IN  MapSeq(SelectSeq(combinations(columns, size), IsKey), Range)

RECURSIVE ImprovedCompositeSearch(_, _, _, _)
ImprovedCompositeSearch(df, columns, size, top) ==
    IF size > top THEN <<>>
    ELSE OrElse(ImprovedKeysOfSize(df, columns, size),
                ImprovedCompositeSearch(df, columns, size + 1, top))

\* One "for fd in fds" pass of method 3 over determined.
RECURSIVE ClosurePass(_, _)
ClosurePass(determined, fds) ==
    IF fds = <<>> THEN determined
    ELSE LET fd == Head(fds)
         IN  IF fd.determinant \subseteq determined /\ ~ (fd.dependent \subseteq determined)
             THEN ClosurePass(determined \cup fd.dependent, Tail(fds))
             ELSE ClosurePass(determined, Tail(fds))

\* The while loop of method 3, `iteration` passes done before the pass that
\* gave `passed`.
RECURSIVE Closure(_, _, _, _)
Closure(determined, passed, fds, iteration) ==
    IF iteration + 1 >= max_iterations \/ passed = determined
    THEN passed
    ELSE Closure(passed, ClosurePass(passed, fds), fds, iteration + 1)

\* Method 3 for one size: column sets whose closure is all columns and
\* that are row-unique.
InferredKeysOfSize(df, columns, fds, size) ==
    LET IsKey(col_combo) ==
            /\ Closure(Range(col_combo), ClosurePass(Range(col_combo), fds), fds, 0)
                  = Range(columns)
            /\ NUnique(df, col_combo) = Len(df)
    IN  MapSeq(SelectSeq(combinations(columns, size), IsKey), Range)

RECURSIVE InferredSearch(_, _, _, _, _)
InferredSearch(df, columns, fds, size, limit) ==
    IF size >= limit THEN <<>>
    ELSE OrElse(InferredKeysOfSize(df, columns, fds, size),
                InferredSearch(df, columns, fds, size + 1, limit))

\* candidate_keys of _detect_candidate_keys_improved before its last pass.
ImprovedFoundKeys(df, columns, fds) ==
    OrElse(ImprovedKeysOfSize(df, columns, 1),
           OrElse(ImprovedCompositeSearch(df, columns, 2,
                                          Min(Len(columns), ImprovedMaxKeySize)),
                  IF fds # <<>>
                  THEN InferredSearch(df, columns, fds, 1,
                                      Min(Len(columns) + 1, InferredKeyLimit))
                  ELSE <<>>))

_detect_candidate_keys_improved(df, columns, fds) ==
    MinimalKeys(ImprovedFoundKeys(df, columns, fds))

\* The pair the detector returns once the FDs are detected.
ImprovedDetected(df, columns, functional_deps) ==
    [fds |-> functional_deps,
     keys |-> _detect_candidate_keys_improved(df, columns, functional_deps)]

\* ImprovedAIDependencyDetector.detect_all_dependencies
Improved_detect_all_dependencies(table_data, column_names) ==
    IF Len(table_data) < min_rows_for_analysis
    THEN [fds |-> <<>>, keys |-> <<>>]
    ELSE ImprovedDetected(table_data, column_names,
                          _detect_functional_dependencies_improved(table_data, column_names))

-----------------------------------------------------------------------------
(* normalization_engine.py: NormalizationEngine.__init__ *)

\* The engine built on the table object `id` of heap h, detected being what
\* detect_all_dependencies returns if called: the deep copy is a new object,
\* the working list holds the caller's object itself, and the detected
\* dependencies are stored into that object.
NormalizationEngineSharingTheTable(h, id, detected) ==
    LET table == h[id]
        with_deps == [table EXCEPT !.functional_dependencies = detected.fds,
                                   !.multi_valued_dependencies = detected.mvds]
        with_keys == IF detected.keys # <<>> /\ table.primary_key = {}
                     THEN [with_deps EXCEPT !.candidate_keys = detected.keys,
                                            !.primary_key = detected.keys[1]]
                     ELSE with_deps
        after == IF table.functional_dependencies = <<>> THEN with_keys ELSE table
    IN  [heap |-> [Append(h, table) EXCEPT ![id] = after],
         original_table |-> id,
         current_tables |-> <<id>>]

NormalizationEngine(h, id, detected) ==
    LET table == h[id]
        copy == Len(h) + 1
        with_deps == [table EXCEPT !.functional_dependencies = detected.fds,
                                   !.multi_valued_dependencies = detected.mvds]
        with_keys == IF detected.keys # <<>> /\ table.primary_key = {}
                     THEN [with_deps EXCEPT !.candidate_keys = detected.keys,
                                            !.primary_key = detected.keys[1]]
                     ELSE with_deps
        after == IF table.functional_dependencies = <<>> THEN with_keys ELSE table
    IN  [heap |-> [Append(h, table) EXCEPT ![id] = after],
         original_table |-> copy,
         current_tables |-> <<id>>]

-----------------------------------------------------------------------------
(* The tables a caller may hand to the engine *)

Name(c) == <<c>>
TableName == Name("t")
Phone(d) == <<"p", "h", "o", "n", "e", d>>

PlainColumns == <<Name("a"), Name("b"), Name("c")>>
PhoneColumns == <<Phone("1"), Phone("2"), Phone("3")>>
ColumnLists == {PlainColumns, PhoneColumns}

\* The elements of s at the positions I, in the order of s.
RECURSIVE At(_, _)
At(s, I) ==
    IF s = <<>> THEN <<>>
    ELSE LET front == At(SubSeq(s, 1, Len(s) - 1), I)
         IN  IF Len(s) \in I THEN Append(front, s[Len(s)]) ELSE front

\* The lists of at most n elements of s, each element once, in the order of s.
SubLists(s, n) == {At(s, I) : I \in {J \in SUBSET DOMAIN s : Cardinality(J) <= n}}

\* The determinants the detector tries, in the order of its loops: every
\* column, then every pair of columns.
Determinants(cols) == combinations(cols, 1) \o combinations(cols, MaxDetSize)

\* Every FD record of the shape the detector builds (the determinant one or
\* two columns, the dependent one column outside it), in the order in which
\* its loops test them.  An input table records a sublist of these: no pair
\* twice, as _remove_redundant_fds leaves them.
FDRecords(cols) ==
    LET Of(det_cols) ==
            LET Other(dep_col) == dep_col \notin Range(det_cols)
                Record(dep_col) == Dep(Range(det_cols), {dep_col})
            IN  MapSeq(SelectSeq(cols, Other), Record)
    IN  Flatten(MapSeq(Determinants(cols), Of))

\* The column sets a candidate key may be, singles first.
KeySets(cols) ==
    MapSeq(combinations(cols, 1) \o combinations(cols, 2) \o combinations(cols, 3), Range)

\* Candidate-key lists: distinct column sets, none containing another.
KeyLists(cols, n) ==
    {ks \in SubLists(KeySets(cols), n) :
        \A i, j \in DOMAIN ks : i # j => ~ (ks[i] \subseteq ks[j])}

\* Every MVD record of the shape the detector builds (a candidate key as
\* determinant, one column as dependent), key by key.
MVDRecords(cols, ks) ==
    LET Of(key) == LET Record(col) == Dep(key, {col}) IN MapSeq(cols, Record)
    IN  Flatten(MapSeq(ks, Of))

\* The primary keys a caller may have set on a table with candidate keys ks:
\* none, or one of the candidate keys.
PrimaryKeys(ks) == {{}} \cup Range(ks)

CellValues == {[kind |-> "scalar", text |-> <<d>>] : d \in {"0", "1"}}

-----------------------------------------------------------------------------
(* The caller *)

Built(t) ==
    /\ heap = <<t>>
    /\ input = t
    /\ pc = "new"
    /\ original_table = 0
    /\ current_tables = <<>>
    /\ result = <<>>
    /\ hash_order = <<>>
    /\ detection = <<>>
    /\ improved = <<>>
    /\ unique_fds = <<>>
    /\ classified_1nf = <<>>
    /\ reported_1nf = <<>>
    /\ closure = <<>>
    /\ upload_folder = {}
    /\ output_folder = {}
    /\ analysis_cache = <<>>
    /\ requests = <<>>
    /\ runs = 0

Start(t) == Built(t) /\ hypotheses = <<>> /\ closure_start = {}

\* A table that arrives with its keys and dependencies recorded, no data:
\* at most MaxRecords key, FD and MVD records in all.
InitPreset ==
    \E cols \in ColumnLists :
      \E ks \in KeyLists(cols, MaxRecords) :
        \E fds \in SubLists(FDRecords(cols), MaxRecords - Len(ks)) :
          \E mvds \in SubLists(MVDRecords(cols, ks), MaxRecords - Len(ks) - Len(fds)) :
            \E pk \in PrimaryKeys(ks) :
              Start([Table(TableName, cols, pk) EXCEPT
                        !.candidate_keys = ks,
                        !.functional_dependencies = fds,
                        !.multi_valued_dependencies = mvds])

\* A table as the parser hands it over: sample rows, nothing recorded; a
\* caller may have chosen the primary key, or recorded an FD.
InitData ==
    \E rows \in SeqsUpTo([Range(PlainColumns) -> CellValues], MaxRows) :
      \/ \E pk \in {{}, {PlainColumns[1], PlainColumns[2]}} :
            Start([Table(TableName, PlainColumns, pk) EXCEPT !.data = rows])
      \/ Start([Table(TableName, PlainColumns, {}) EXCEPT
                   !.data = rows,
                   !.functional_dependencies =
                       <<Dep({PlainColumns[2]}, {PlainColumns[3]})>>])

Init == InitPreset \/ InitData

\* The rows handed to a detector alone: the first column may take a third
\* value, so that one column can tell three rows apart.
DetectorRows ==
    LET third == [kind |-> "scalar", text |-> <<"2">>]
    IN  {row \in [Range(PlainColumns) -> CellValues \cup {third}] :
            \A c \in Range(PlainColumns) \ {PlainColumns[1]} : row[c] \in CellValues}

InitDetector ==
    \E rows \in SeqsUpTo(DetectorRows, MaxRows) :
        Start([Table(TableName, PlainColumns, {}) EXCEPT !.data = rows])

\* engine = NormalizationEngine(table)
Construct ==
    /\ pc = "new"
    /\ \E detected \in detect_all_dependencies(heap[1]) :
          LET engine == NormalizationEngine(heap, 1, detected)
          IN  /\ heap' = engine.heap
              /\ original_table' = engine.original_table
              /\ current_tables' = engine.current_tables
              /\ detection' = IF heap[1].functional_dependencies = <<>>
                              THEN <<detected>> ELSE <<>>
    /\ pc' = "ready"
    /\ UNCHANGED <<input, result, hash_order, improved, hypotheses, unique_fds, runs, direct_calls, server>>

\* The sets of which analyze() may read list(S)[0] on the working table
\* and whose first element depends on the order.
ListedSets(table) ==
    {S \in UNION {{table.functional_dependencies[f].determinant,
                   table.functional_dependencies[f].dependent} :
                     f \in DOMAIN table.functional_dependencies} :
        Cardinality(S) > 1}

\* Of the orders `all`, one for each way of listing the sets `sets`.
Distinguishable(all, sets) ==
    {CHOOSE q \in all : \A S \in sets : FirstOf(S, p) = FirstOf(S, q) : p \in all}

\* The iteration orders analyze() can tell apart on the table.
HashOrders(table) == Distinguishable(SetOrders(Range(table.columns)), ListedSets(table))

\* The engine and the caller once analyze() has returned r.
Analyzed(r, ord) ==
    /\ heap' = r.heap
    /\ current_tables' = r.current_tables
    /\ result' = <<r.result>>
    /\ hash_order' = ord

\* result = engine.analyze()
Analyze ==
    /\ pc = "ready"
    /\ runs < MaxRuns
    /\ \E ord \in (IF hash_order = <<>> THEN HashOrders(heap[1]) ELSE {hash_order}) :
          Analyzed(analyze([heap |-> heap, current_tables |-> current_tables],
                           original_table, ord), ord)
    /\ runs' = runs + 1
    /\ UNCHANGED <<input, pc, original_table, detection, improved, hypotheses, unique_fds, direct_calls, server>>

\* ImprovedAIDependencyDetector().detect_all_dependencies(table.data, names),
\* by a caller that builds no engine.
DetectImproved ==
    /\ pc = "new"
    /\ improved' = <<Improved_detect_all_dependencies(input.data, get_column_names(input))>>
    /\ pc' = "detected"
    /\ UNCHANGED <<heap, input, original_table, current_tables, result, hash_order,
                   detection, hypotheses, unique_fds, runs, direct_calls, server>>

Next == Construct \/ Analyze \/ DetectImproved

Spec == Init /\ [][Next]_vars

\* AIDependencyDetector().detect_all_dependencies(table), by a caller that
\* builds no engine.
Detect ==
    /\ pc = "new"
    /\ \E detected \in detect_all_dependencies(input) : detection' = <<detected>>
    /\ pc' = "detected"
    /\ UNCHANGED <<heap, input, original_table, current_tables, result, hash_order,
                   improved, hypotheses, unique_fds, runs, direct_calls, server>>

NextDetector == Detect \/ DetectImproved

\* The two detectors on their own, each on every table of DetectorRows.
DetectorSpec == InitDetector /\ [][NextDetector]_vars

\* The scored FDs a list handed to _remove_redundant_fds is made of: a pair
\* of one column each, a pair with a two-column determinant and a trivial
\* pair, each at a confidence between the thresholds and 1.
ScoredHypotheses ==
    LET a == PlainColumns[1]
        b == PlainColumns[2]
        c == PlainColumns[3]
    IN  {[determinant |-> pair[1], dependent |-> pair[2], confidence |-> conf] :
            pair \in {<<{a}, {b}>>, <<{a, b}, {c}>>, <<{a}, {a}>>},
            conf \in {<<9, 10>>, <<19, 20>>, <<1, 1>>}}

InitHypotheses ==
    \E fds \in SeqsUpTo(ScoredHypotheses, MaxHypotheses) :
        Built(Table(TableName, PlainColumns, {})) /\ hypotheses = fds /\ closure_start = {}

\* AIDependencyDetector()._remove_redundant_fds(fds)
RemoveRedundant ==
    /\ pc = "new"
    /\ unique_fds' = <<_remove_redundant_fds(hypotheses)>>
    /\ pc' = "filtered"
    /\ UNCHANGED <<heap, input, original_table, current_tables, result, hash_order,
                   detection, improved, hypotheses, runs, direct_calls, server>>

\* ImprovedAIDependencyDetector()._remove_redundant_fds(fds)
RemoveRedundantImproved ==
    /\ pc = "new"
    /\ unique_fds' = <<Improved_remove_redundant_fds(hypotheses)>>
    /\ pc' = "filtered"
    /\ UNCHANGED <<heap, input, original_table, current_tables, result, hash_order,
                   detection, improved, hypotheses, runs, direct_calls, server>>

NextRedundant == RemoveRedundant \/ RemoveRedundantImproved

\* _remove_redundant_fds of either detector on every list of ScoredHypotheses.
RedundantSpec == InitHypotheses /\ [][NextRedundant]_vars

\* A bare column name beside a digit-suffixed one.
MixedColumns == <<<<"p", "h", "o", "n", "e">>, Phone("1")>>

\* The values a cell may hold besides a number: a list, a string of three
\* comma-separated parts and a string of two.
OddValues ==
    {[kind |-> "list", text |-> <<>>],
     [kind |-> "str", text |-> <<"x", ",", "y", ",", "z">>],
     [kind |-> "str", text |-> <<"x", ",", "y">>]}

\* n rows of zeros, row k holding value in the first column (no row if k = 0).
SampleRows(cols, n, k, value) ==
    [r \in 1..n |-> [c \in Range(cols) |->
        IF r = k /\ c = cols[1] THEN value ELSE [kind |-> "scalar", text |-> <<"0">>]]]

\* The tables handed to the 1NF classifier and to the 1NF transition: up to
\* MaxSampleRows rows, at most one cell that is not a number.
InitSample ==
    \E cols \in {PlainColumns, PhoneColumns, MixedColumns} :
      \E n \in 0..MaxSampleRows :
        \E k \in 0..n :
          \E value \in OddValues :
            Start([Table(TableName, cols, {}) EXCEPT
                      !.data = SampleRows(cols, n, k, value)])

\* engine._is_1nf() with the table as first working table; construction
\* changes neither the columns nor the rows of the table.
Classify1NF ==
    /\ classified_1nf = <<>>
    /\ classified_1nf' = <<_is_1nf(heap[1])>>
    /\ UNCHANGED <<heap, input, pc, original_table, current_tables, result, hash_order,
                   detection, improved, hypotheses, unique_fds, reported_1nf,
                   closure_start, closure, runs, server>>

\* engine._normalize_to_1nf() with the table as first working table.
NormalizeTo1NF ==
    /\ reported_1nf = <<>>
    /\ reported_1nf' =
          <<_normalize_to_1nf([heap |-> heap, current_tables |-> <<1>>],
                              hash_order).step.violations_found>>
    /\ UNCHANGED <<heap, input, pc, original_table, current_tables, result, hash_order,
                   detection, improved, hypotheses, unique_fds, classified_1nf,
                   closure_start, closure, runs, server>>

NextFirstNF == Classify1NF \/ NormalizeTo1NF

\* The 1NF classifier and the 1NF transition on every table of InitSample.
FirstNFSpec == InitSample /\ [][NextFirstNF]_vars

\* The columns of a table of n columns, each named by one letter.
ChainColumns(n) ==
    SubSeq(<<<<"a">>, <<"b">>, <<"c">>, <<"d">>, <<"e">>, <<"f">>, <<"g">>,
             <<"h">>, <<"i">>, <<"j">>, <<"k">>, <<"l">>, <<"m">>>>, 1, n)

\* The FD lists method 3 is handed on n columns: each column determined by
\* the next one ("chain"), the last one by the first as well ("cycle"),
\* listed determinant by determinant in column order as
\* _detect_functional_dependencies_improved lists them, or in the opposite
\* order ("reversed").
ChainFds(n, shape) ==
    LET cols == ChainColumns(n)
        Fd(from, to) ==
            [determinant |-> {cols[from]}, dependent |-> {cols[to]}, confidence |-> <<1, 1>>]
        listed == [i \in 1..(n - 1) |-> Fd(i + 1, i)]
        chain == IF shape \in {"cycle", "reversed cycle"}
                 THEN <<Fd(1, n)>> \o listed
                 ELSE listed
    IN  IF shape \in {"reversed chain", "reversed cycle"}
        THEN [i \in DOMAIN chain |-> chain[Len(chain) + 1 - i]]
        ELSE chain

\* A table of 2 to MaxChainColumns columns, a chain or a cycle of FDs on
\* them and a start set of one or two columns.
InitClosure ==
    \E n \in 2..MaxChainColumns :
      \E shape \in {"chain", "reversed chain", "cycle", "reversed cycle"} :
        \E start \in {c \in SUBSET Range(ChainColumns(n)) : Cardinality(c) \in 1..2} :
             /\ Built(Table(TableName, ChainColumns(n), {}))
             /\ hypotheses = ChainFds(n, shape)
             /\ closure_start = start

\* The closure loop of method 3 of _detect_candidate_keys_improved on
\* closure_start and the FDs handed over.
InferClosure ==
    /\ pc = "new"
    /\ closure' = <<Closure(closure_start, ClosurePass(closure_start, hypotheses),
                             hypotheses, 0)>>
    /\ pc' = "closed"
    /\ UNCHANGED <<heap, input, original_table, current_tables, result, hash_order,
                   detection, improved, hypotheses, unique_fds, classified_1nf,
                   reported_1nf, closure_start, runs, server>>

NextClosure == InferClosure

\* The closure loop on every start set and FD list of InitClosure.
ClosureSpec == InitClosure /\ [][NextClosure]_vars

-----------------------------------------------------------------------------
(* routes/upload_routes.py, routes/analysis_routes.py and                   *)
(* routes/download_routes.py.  A request is the record of its route, the id  *)
(* in its URL, the position `at` of its handler, the status code of its      *)
(* response (0 while there is none) and the handler's local analysis_result. *)
(* The uuid4 the handler of request r draws as analysis_id is r: the ids of  *)
(* two requests differ.  The handlers of two analyze requests may run at the *)
(* same time, one stage of one of them at a time.                            *)

\* The file ids the clients use: that of a workbook with one data sheet and
\* that of a workbook whose sheets are all empty.
FileIds == {"data", "empty"}

\* ExcelParser(file_path).parse(): one Table per non-empty sheet, with the
\* rows of the sheet and nothing else recorded.
parse(file_id) ==
    IF file_id = "data"
    THEN <<[Table(TableName, PlainColumns, {}) EXCEPT
               !.data = <<[c \in Range(PlainColumns) |->
                              [kind |-> "scalar", text |-> <<"0">>]]>>]>>
    ELSE <<>>

\* f"{file_id}_{suffix}.{extension}" in OUTPUT_FOLDER
get_output_path(file_id, suffix, extension) == <<file_id, suffix, extension>>

\* report_path, sql_path and excel_path of analyze_file.
ArtifactPath(file_id, kind) ==
    CASE kind = "report" -> get_output_path(file_id, "report", "docx")
      [] kind = "sql"    -> get_output_path(file_id, "schema", "sql")
      [] kind = "excel"  -> get_output_path(file_id, "normalized", "xlsx")

\* The stages of analyze_file once the tables are parsed, in the order of
\* the handler, with the insertion into analysis_cache before the artifacts.
analyze_file_stages_caching_early ==
    <<"engine", "cache", "report", "sql", "excel", "respond">>

\* The stages of analyze_file once the tables are parsed, in the order of
\* the handler.
analyze_file_stages == <<"engine", "report", "sql", "excel", "cache", "respond">>

StageAfter(at) ==
    LET i == CHOOSE j \in DOMAIN analyze_file_stages : analyze_file_stages[j] = at
    IN  analyze_file_stages[i + 1]

\* "engine = NormalizationEngine(table); analysis_result = engine.analyze()":
\* the result with the tables it refers to.
analyze_file_result(table, detected, ord) ==
    LET engine == NormalizationEngine(<<table>>, 1, detected)
        r == analyze([heap |-> engine.heap, current_tables |-> engine.current_tables],
                     engine.original_table, ord)
    IN  [result |-> r.result, heap |-> r.heap]

\* analysis_cache with "analysis_cache[analysis_id] = entry" done.
Cached(cache, analysis_id, entry) ==
    [id \in DOMAIN cache \cup {analysis_id} |->
        IF id = analysis_id THEN entry ELSE cache[id]]

InitRoutes ==
    /\ Start(Table(TableName, PlainColumns, {}))

\* upload_file: save_uploaded_file stores the workbook under a new file id.
UploadFile ==
    /\ \E file_id \in FileIds \ upload_folder :
          upload_folder' = upload_folder \cup {file_id}
    /\ UNCHANGED <<output_folder, analysis_cache, requests, library>>

\* POST /analyze/<file_id> arrives.
ReceiveAnalyze ==
    /\ Len(requests) < MaxRequests
    /\ \E file_id \in FileIds :
          requests' = Append(requests,
                             [route |-> "analyze", id |-> file_id, at |-> "received",
                              response |-> 0, analysis_result |-> <<>>])
    /\ UNCHANGED <<upload_folder, output_folder, analysis_cache, library>>

\* requests with request r at position `at`, answered with `response` if
\* `at` is "done".
Moved(r, at, response) ==
    [requests EXCEPT ![r].at = at, ![r].response = response]

Handling(r, at) ==
    /\ requests[r].route = "analyze"
    /\ requests[r].at = at

\* analyze_file up to the parsed tables: 404 if no file name of the upload
\* folder starts with the file id, 400 if parser.parse() yields no table.
Parse ==
    /\ \E r \in DOMAIN requests :
          /\ Handling(r, "received")
          /\ requests' = IF requests[r].id \notin upload_folder
                          THEN Moved(r, "done", 404)
                          ELSE IF parse(requests[r].id) = <<>>
                               THEN Moved(r, "done", 400)
                               ELSE Moved(r, analyze_file_stages[1], 0)
    /\ UNCHANGED <<upload_folder, output_folder, analysis_cache, library>>

\* The engine is built on tables[0] and analyze() returns.
RunEngine ==
    /\ \E r \in DOMAIN requests :
          /\ Handling(r, "engine")
          /\ LET table == parse(requests[r].id)[1]
             IN  \E detected \in detect_all_dependencies(table) :
                   \E ord \in HashOrders(table) :
                     requests' =
                        [Moved(r, StageAfter("engine"), 0) EXCEPT
                            ![r].analysis_result =
                                <<analyze_file_result(table, detected, ord)>>]
    /\ UNCHANGED <<upload_folder, output_folder, analysis_cache, library>>

\* One of the three artifacts is generated and written to its path:
\* the report, the SQL script or the workbook.
Generate ==
    /\ \E r \in DOMAIN requests :
          \E kind \in {"report", "sql", "excel"} :
             /\ Handling(r, kind)
             /\ output_folder' =
                    output_folder \cup {ArtifactPath(requests[r].id, kind)}
             /\ requests' = Moved(r, StageAfter(kind), 0)
    /\ UNCHANGED <<upload_folder, analysis_cache, library>>

\* "analysis_cache[analysis_id] = {...}"
CacheResult ==
    /\ \E r \in DOMAIN requests :
          /\ Handling(r, "cache")
          /\ analysis_cache' =
                Cached(analysis_cache, r,
                       [file_id |-> requests[r].id,
                        result |-> requests[r].analysis_result[1],
                        report_path |-> ArtifactPath(requests[r].id, "report"),
                        sql_path |-> ArtifactPath(requests[r].id, "sql"),
                        excel_path |-> ArtifactPath(requests[r].id, "excel")])
          /\ requests' = Moved(r, StageAfter("cache"), 0)
    /\ UNCHANGED <<upload_folder, output_folder, library>>

\* "return jsonify(response_data), 200": response_data is built from the
\* values result_dict was built from before.
Respond ==
    /\ \E r \in DOMAIN requests :
          /\ Handling(r, "respond")
          /\ requests' = Moved(r, "done", 200)
    /\ UNCHANGED <<upload_folder, output_folder, analysis_cache, library>>

\* A stage raises and "except Exception" answers 500; a generator that
\* raises may have written its file, whole or in part, or not.
Raise ==
    /\ \E r \in DOMAIN requests :
          \E at \in {"received", "engine", "report", "sql", "excel"} :
             /\ Handling(r, at)
             /\ requests' = Moved(r, "done", 500)
             /\ \E written \in BOOLEAN :
                   output_folder' =
                      IF written /\ at \in {"report", "sql", "excel"}
                      THEN output_folder \cup {ArtifactPath(requests[r].id, at)}
                      ELSE output_folder
    /\ UNCHANGED <<upload_folder, analysis_cache, library>>

\* The request of a client for the analysis `id`, answered at once; id 0
\* is an id no handler has drawn.
Answered(route, id, response) ==
    Append(requests, [route |-> route, id |-> id, at |-> "done",
                      response |-> response, analysis_result |-> <<>>])

\* get_analysis_status
GetAnalysisStatus ==
    /\ Len(requests) < MaxRequests
    /\ \E id \in 0..Len(requests) :
          requests' = Answered("status", id,
                               IF id \in DOMAIN analysis_cache THEN 200 ELSE 404)
    /\ UNCHANGED <<upload_folder, output_folder, analysis_cache, library>>

\* download_report, download_sql and download_excel
Download ==
    /\ Len(requests) < MaxRequests
    /\ \E id \in 0..Len(requests) :
          \E kind \in {"report", "sql", "excel"} :
             requests' =
                Answered(kind, id,
                         IF id \notin DOMAIN analysis_cache
                         THEN 404
                         ELSE LET cached == analysis_cache[id]
                                  path == CASE kind = "report" -> cached.report_path
                                            [] kind = "sql" -> cached.sql_path
                                            [] kind = "excel" -> cached.excel_path
                              IN  IF path \in output_folder THEN 200 ELSE 404)
    /\ UNCHANGED <<upload_folder, output_folder, analysis_cache, library>>

NextRoutes ==
    \/ UploadFile
    \/ ReceiveAnalyze
    \/ Parse
    \/ RunEngine
    \/ Generate
    \/ CacheResult
    \/ Respond
    \/ Raise
    \/ GetAnalysisStatus
    \/ Download

\* The web application, from its start with nothing uploaded.
RouteSpec == InitRoutes /\ [][NextRoutes]_vars

-----------------------------------------------------------------------------
(* Properties.  The normal forms in the order of the NormalForm enumeration, *)
(* and the result the latest analyze() returned.                             *)

NormalFormOrder ==
    <<"UNNORMALIZED", "FIRST_NF", "SECOND_NF", "THIRD_NF", "BCNF", "FOURTH_NF", "FIFTH_NF">>

Level(nf) == CHOOSE i \in DOMAIN NormalFormOrder : NormalFormOrder[i] = nf

Top == Len(NormalFormOrder)

Returns == result # <<>>

Steps == result[1].normalization_steps

ClassifiedLevel == Level(result[1].current_normal_form)

\* The tables of the working set.
WorkingSet == Range(current_tables)

\* C1: for every input table whose classified level L is below 5NF,
\* analyze() returns exactly one step for each normal form above L, in the
\* order 1NF, 2NF, 3NF, BCNF, 4NF, 5NF, the last step leading to 5NF.
C1_OneStepPerLevelAbove ==
    (Returns /\ ClassifiedLevel < Top) =>
        [i \in DOMAIN Steps |-> Steps[i].to_nf]
            = SubSeq(NormalFormOrder, ClassifiedLevel + 1, Top)

\* C2: when the BCNF transition runs on a working set in which a table has an
\* FD whose determinant contains no candidate key of that table, the BCNF
\* step holds a violation for that FD.  (The later transitions leave the
\* working set and its tables as the BCNF transition saw them.)
C2_BcnfReportsNonSuperkeyFDs ==
    Returns =>
        \A s \in DOMAIN Steps :
            Steps[s].to_nf = "BCNF" =>
                \A id \in WorkingSet :
                    \A f \in DOMAIN heap[id].functional_dependencies :
                        LET fd == heap[id].functional_dependencies[f]
                            viols == Steps[s].violations_found
                        IN  (~ \E k \in DOMAIN heap[id].candidate_keys :
                                    heap[id].candidate_keys[k] \subseteq fd.determinant)
                            => \E v \in DOMAIN viols :
                                   Range(viols[v].affected_columns)
                                       = fd.determinant \cup fd.dependent

\* The number of MVD records on the tables of the working set.
RECURSIVE RecordedMVDs(_)
RecordedMVDs(ids) ==
    IF ids = <<>> THEN 0
    ELSE Len(heap[Head(ids)].multi_valued_dependencies) + RecordedMVDs(Tail(ids))

\* C3: when analyze() runs on a table classified below 4NF that has recorded
\* MVDs, the result holds a step to 4NF with exactly one violation per
\* recorded MVD of every table of the working set.
C3_FourthNFStepPerMVD ==
    (/\ Returns
     /\ ClassifiedLevel < Level("FOURTH_NF")
     /\ heap[current_tables[1]].multi_valued_dependencies # <<>>) =>
        \E s \in DOMAIN Steps :
            /\ Steps[s].to_nf = "FOURTH_NF"
            /\ Len(Steps[s].violations_found) = RecordedMVDs(current_tables)

\* C4: for a table with the columns phone1, phone2, phone3, the classified
\* level is Unnormalized and the result holds a 1NF repeating-group
\* violation whose affected columns are exactly those three.
C4_PhoneColumnsReported ==
    (Returns /\ input.columns = PhoneColumns) =>
        /\ result[1].current_normal_form = "UNNORMALIZED"
        /\ \E s \in DOMAIN Steps :
             \E v \in DOMAIN Steps[s].violations_found :
                LET viol == Steps[s].violations_found[v]
                IN  /\ viol.normal_form = "FIRST_NF"
                    /\ viol.description = "Repeating group detected"
                    /\ Range(viol.affected_columns) = Range(PhoneColumns)

\* C5: constructing an engine on a Table and running analyze() leaves the
\* caller's Table object as it was: its functional dependencies, multi-valued
\* dependencies, candidate keys and primary key are those it had before.
C5_CallerTableUnchanged ==
    Returns =>
        /\ heap[1].functional_dependencies = input.functional_dependencies
        /\ heap[1].multi_valued_dependencies = input.multi_valued_dependencies
        /\ heap[1].candidate_keys = input.candidate_keys
        /\ heap[1].primary_key = input.primary_key

\* The tables of final_tables that hold column col.
Holders(col) ==
    {i \in DOMAIN result[1].final_tables :
        col \in Range(heap[result[1].final_tables[i]].columns)}

\* C6: after a 2NF or 3NF transition has materialized a table from X -> Y,
\* the columns of Y belong to exactly one table: no dependent column (a column
\* of the new table outside its key X) is held by two tables of final_tables.
C6_DependentColumnsMoved ==
    Returns =>
        \A s \in DOMAIN Steps :
            Steps[s].to_nf \in {"SECOND_NF", "THIRD_NF"} =>
                \A i \in DOMAIN result[1].final_tables :
                    LET new_table == heap[result[1].final_tables[i]]
                    IN  result[1].final_tables[i] > original_table =>
                            \A col \in Range(new_table.columns) \ new_table.primary_key :
                                Cardinality(Holders(col)) = 1

\* C8: once analyze() has completed on an engine, calling it again yields
\* steps with zero violations each and leaves the working set as it was.
C8_SecondAnalyzeFindsNothing ==
    [][(runs >= 1 /\ runs' = runs + 1) =>
          /\ \A s \in DOMAIN result'[1].normalization_steps :
                result'[1].normalization_steps[s].violations_found = <<>>
          /\ [i \in DOMAIN current_tables' |-> heap'[current_tables'[i]]]
                = [i \in DOMAIN current_tables |-> heap[current_tables[i]]]]_vars

\* The FDs of table that C7 is about: the determinant a strict subset of the
\* primary key, the dependent contained in no candidate key.
StrictlyPartial(table) ==
    LET Is(fd) == /\ fd.determinant \subseteq table.primary_key
                  /\ fd.determinant # table.primary_key
                  /\ \A k \in DOMAIN table.candidate_keys :
                        ~ (fd.dependent \subseteq table.candidate_keys[k])
    IN  SelectSeq(table.functional_dependencies, Is)

\* What C7 says of one 2NF step, `table` being the first working table.
ExtractsEachPartialFD(step, table, partial) ==
    /\ Len(step.violations_found) = Len(partial)
    /\ Len(step.tables_created) = 1 + Len(partial)
    /\ step.tables_created[1] \in DOMAIN heap /\ heap[step.tables_created[1]] = table
    /\ \A i \in DOMAIN partial :
          LET fd == partial[i]
              new_table == heap[step.tables_created[1 + i]]
          IN  /\ Range(step.violations_found[i].affected_columns)
                    = fd.determinant \cup fd.dependent
              /\ Range(new_table.columns) = fd.determinant \cup fd.dependent
              /\ new_table.primary_key = fd.determinant
              /\ \E dep_col \in fd.dependent :
                    new_table.name = table.name \o <<"_">> \o dep_col

\* C7: in the 2NF transition, every FD of the first working table whose
\* determinant is a strict subset of the primary key and whose dependent is
\* in no candidate key gets exactly one violation and exactly one new table,
\* with the columns determinant + dependent, the determinant as primary key
\* and the name <source name>_<dependent column>; no other FD gets a table.
C7_SecondNFExtraction ==
    Returns =>
        \A s \in DOMAIN Steps :
            Steps[s].to_nf = "SECOND_NF" =>
                ExtractsEachPartialFD(Steps[s], heap[result[1].final_tables[1]],
                                      StrictlyPartial(heap[result[1].final_tables[1]]))

\* A 2NF step that extracted an FD of a table which records another FD too.
C7_Witness ==
    /\ Returns
    /\ \E s \in DOMAIN Steps :
          /\ Steps[s].to_nf = "SECOND_NF"
          /\ Len(Steps[s].violations_found) >= 1
          /\ Len(heap[1].functional_dependencies) > Len(Steps[s].violations_found)

\* The predicate of the normal form at position level of NormalFormOrder.
Satisfies(table, level) ==
    CASE level = 2 -> _is_1nf(table)
      [] level = 3 -> _is_2nf(table)
      [] level = 4 -> _is_3nf(table)
      [] level = 5 -> _is_bcnf(table)
      [] level = 6 -> _is_4nf(table)
      [] level = 7 -> _is_5nf(table)

\* The table analyze() classifies, self.current_tables[0].  No transition
\* modifies a table, so it is after analyze() as it was when classified.
ClassifiedTable == heap[current_tables[1]]

\* C9: classification is monotonic: if _determine_current_nf returns level L
\* for a table, every predicate of a level at or below L is true of the
\* table and the predicate of the level right above L is false.
C9_ClassificationMonotonic ==
    Returns =>
        /\ \A level \in 2..ClassifiedLevel : Satisfies(ClassifiedTable, level)
        /\ ClassifiedLevel < Top => ~ Satisfies(ClassifiedTable, ClassifiedLevel + 1)

\* analyze() has classified a table in 3NF that records FDs.
C9_Witness ==
    /\ Returns
    /\ result[1].current_normal_form = "THIRD_NF"
    /\ _is_3nf(ClassifiedTable) /\ ~ _is_bcnf(ClassifiedTable)
    /\ ClassifiedTable.functional_dependencies # <<>>

\* A table in 1NF with an empty primary key and no candidate keys.
Keyless(table) ==
    /\ _is_1nf(table)
    /\ table.primary_key = {}
    /\ table.candidate_keys = <<>>

\* C10 as stated: for a table in 1NF with an empty primary key and no
\* candidate keys, the 2NF, 3NF and BCNF predicates are all satisfied,
\* whatever FDs the table records.
C10_KeylessSatisfiesAll ==
    (Returns /\ Keyless(ClassifiedTable)) =>
        /\ _is_2nf(ClassifiedTable)
        /\ _is_3nf(ClassifiedTable)
        /\ _is_bcnf(ClassifiedTable)

\* C10 as amended: for such a table the 2NF predicate is satisfied whatever
\* FDs are recorded; the 3NF and BCNF predicates are satisfied if and only
\* if the table records no FD.
C10_KeylessSatisfies2NF ==
    (Returns /\ Keyless(ClassifiedTable)) =>
        /\ _is_2nf(ClassifiedTable)
        /\ _is_3nf(ClassifiedTable) <=> ClassifiedTable.functional_dependencies = <<>>
        /\ _is_bcnf(ClassifiedTable) <=> ClassifiedTable.functional_dependencies = <<>>

\* analyze() has classified a keyless table that records FDs, in 2NF.
C10_Witness ==
    /\ Returns
    /\ Keyless(ClassifiedTable)
    /\ ClassifiedTable.functional_dependencies # <<>>
    /\ result[1].current_normal_form = "SECOND_NF"

-----------------------------------------------------------------------------
(* The detectors *)

\* The key lists the two key finders have returned, each with the list its
\* search had found before the minimality pass.
KeysReturned ==
    (IF detection # <<>> /\ Len(input.data) >= MinRows
     THEN {[found |-> FoundKeys(input.data, input.columns),
            keys |-> detection[1].keys]}
     ELSE {})
    \cup
    (IF improved # <<>> /\ Len(input.data) >= min_rows_for_analysis
     THEN {[found |-> ImprovedFoundKeys(input.data, get_column_names(input),
                                        improved[1].fds),
            keys |-> improved[1].keys]}
     ELSE {})

\* C11: no returned key is contained in another returned key, and the
\* minimality pass leaves a key whenever the search had found one.
C11_KeysMinimal ==
    \A r \in KeysReturned :
        /\ \A i, j \in DOMAIN r.keys :
              r.keys[i] # r.keys[j] => ~ (r.keys[i] \subseteq r.keys[j])
        /\ r.found # <<>> => r.keys # <<>>

\* Two composite keys came out of the search, and a wider set is unique too.
C11_Witness ==
    /\ detection # <<>>
    /\ Len(detection[1].keys) >= 2
    /\ \A i \in DOMAIN detection[1].keys : Cardinality(detection[1].keys[i]) = 2
    /\ Cardinality(Range(input.data)) = Len(input.data)

\* The FD lists the two detectors have returned.
FdsReturned ==
    (IF detection # <<>> THEN {detection[1].fds} ELSE {})
        \cup (IF improved # <<>> THEN {improved[1].fds} ELSE {})

\* C12: no returned FD has its dependent inside its determinant.
C12_NonTrivialFDs ==
    \A fds \in FdsReturned :
        \A i \in DOMAIN fds : ~ (fds[i].dependent \subseteq fds[i].determinant)

\* The detector returned an FD of one column and an FD of two columns.
C12_Witness ==
    /\ detection # <<>>
    /\ \E i, j \in DOMAIN detection[1].fds :
          /\ Cardinality(detection[1].fds[i].determinant) = 1
          /\ Cardinality(detection[1].fds[j].determinant) = 2

SamePair(fd, other) ==
    fd.determinant = other.determinant /\ fd.dependent = other.dependent

\* C13: the FDs kept have pairwise different (determinant, dependent) pairs,
\* and for each non-trivial pair among the hypotheses the kept record is one
\* of the hypotheses of that pair and none of them has a higher confidence.
C13_OnePerPairAtMaximum ==
    unique_fds # <<>> =>
        LET kept == unique_fds[1]
        IN  /\ \A i, j \in DOMAIN kept : SamePair(kept[i], kept[j]) => i = j
            /\ \A h \in DOMAIN hypotheses :
                  ~ (hypotheses[h].dependent \subseteq hypotheses[h].determinant) =>
                      \E i \in DOMAIN kept :
                          /\ SamePair(kept[i], hypotheses[h])
                          /\ \E g \in DOMAIN hypotheses : hypotheses[g] = kept[i]
                          /\ ~ ConfGreater(hypotheses[h].confidence, kept[i].confidence)

\* A pair was scored twice, the higher confidence first, and one record of
\* it came back.
C13_Witness ==
    /\ unique_fds # <<>>
    /\ \E g, h \in DOMAIN hypotheses :
          /\ g < h
          /\ SamePair(hypotheses[g], hypotheses[h])
          /\ ConfGreater(hypotheses[g].confidence, hypotheses[h].confidence)
          /\ \E i \in DOMAIN unique_fds[1] : unique_fds[1][i] = hypotheses[g]

\* The columns of the input whose values differ from row to row.
UniqueColumns ==
    {c \in Range(input.columns) : NUnique(input.data, <<c>>) = Len(input.data)}

\* The key lists the two key finders have returned on tables with the rows
\* they ask for.
ReturnedKeyLists ==
    (IF detection # <<>> /\ Len(input.data) >= MinRows
     THEN {detection[1].keys} ELSE {})
    \cup
    (IF improved # <<>> /\ Len(input.data) >= min_rows_for_analysis
     THEN {improved[1].keys} ELSE {})

\* C15: when exactly one column is row-unique the key finder returns that
\* column as the only key, and when any returned key is a single column no
\* returned key has two columns or more.
C15_SingleColumnKeysOnly ==
    \A keys \in ReturnedKeyLists :
        /\ Cardinality(UniqueColumns) = 1 => keys = <<UniqueColumns>>
        /\ (\E i \in DOMAIN keys : Cardinality(keys[i]) = 1)
              => \A i \in DOMAIN keys : Cardinality(keys[i]) = 1

\* The improved key finder returned the one row-unique column of three rows
\* in which two other columns together are unique as well.
C15_Witness ==
    /\ improved # <<>>
    /\ Len(input.data) = min_rows_for_analysis
    /\ Cardinality(UniqueColumns) = 1
    /\ improved[1].keys = <<UniqueColumns>>
    /\ NUnique(input.data, <<PlainColumns[2], PlainColumns[3]>>) = Len(input.data)

-----------------------------------------------------------------------------
(* The engine on its input *)

\* The input table has no row or one row.
FewRows == Len(input.data) < MinRows

\* C14: on a table of zero rows or one row both detectors return empty
\* lists, and every analyze() of the engine built on it has returned a result.
C14_FewRowsDetectNothing ==
    FewRows =>
        /\ detection # <<>> => detection[1] = [fds |-> <<>>, mvds |-> <<>>, keys |-> <<>>]
        /\ improved # <<>> => improved[1] = [fds |-> <<>>, keys |-> <<>>]
        /\ runs > 0 => Returns

\* The engine was built on a table of one row, ran the detector and analyze()
\* has returned.
C14_Witness ==
    /\ Len(input.data) = 1
    /\ detection # <<>>
    /\ Returns

\* fd leads from one column to another, neither in the primary key nor in
\* a candidate key of table.
BetweenNonKeyColumns(table, fd) ==
    /\ Cardinality(fd.determinant) = 1
    /\ Cardinality(fd.dependent) = 1
    /\ fd.determinant # fd.dependent
    /\ \A col \in fd.determinant \cup fd.dependent :
          /\ col \notin table.primary_key
          /\ \A k \in DOMAIN table.candidate_keys : col \notin table.candidate_keys[k]

\* The FDs between non-key columns that a 1NF table with a one-column
\* primary key records.
TransitiveCase(table) ==
    IF _is_1nf(table) /\ Cardinality(table.primary_key) = 1
    THEN {table.functional_dependencies[f] : f \in
             {g \in DOMAIN table.functional_dependencies :
                 BetweenNonKeyColumns(table, table.functional_dependencies[g])}}
    ELSE {}

\* C16: a 1NF table with a one-column primary key and an FD between two
\* non-key columns is classified 2NF (the 2NF predicate true, the 3NF
\* predicate false), the 3NF step holds a violation on the FD's columns, and
\* final_tables holds a new table with exactly the FD's columns and the
\* determinant as primary key.
C16_TransitiveFDExtracted ==
    Returns =>
        \A fd \in TransitiveCase(ClassifiedTable) :
            /\ result[1].current_normal_form = "SECOND_NF"
            /\ _is_2nf(ClassifiedTable)
            /\ ~ _is_3nf(ClassifiedTable)
            /\ \E s \in DOMAIN Steps :
                  /\ Steps[s].to_nf = "THIRD_NF"
                  /\ \E v \in DOMAIN Steps[s].violations_found :
                        /\ Steps[s].violations_found[v].description = "Transitive dependency"
                        /\ Range(Steps[s].violations_found[v].affected_columns)
                              = fd.determinant \cup fd.dependent
            /\ \E t \in DOMAIN result[1].final_tables :
                  /\ result[1].final_tables[t] # current_tables[1]
                  /\ Range(heap[result[1].final_tables[t]].columns)
                        = fd.determinant \cup fd.dependent
                  /\ heap[result[1].final_tables[t]].primary_key = fd.determinant

\* The engine detected the key and the FDs from two rows or more, one of the
\* FDs lies between non-key columns, and analyze() has returned.
C16_Witness ==
    /\ Returns
    /\ detection # <<>>
    /\ Len(input.data) >= MinRows
    /\ TransitiveCase(ClassifiedTable) # {}

\* C17: when analyze() runs on a table classified below 5NF, the result
\* holds a step to 5NF, and that step has no violation exactly when no table
\* of the working set records an MVD (a remaining MVD is reported as a
\* finding for manual review).
C17_FifthNFStepFlagsRemainingMVDs ==
    (Returns /\ ClassifiedLevel < Level("FIFTH_NF")) =>
        \E s \in DOMAIN Steps :
            /\ Steps[s].to_nf = "FIFTH_NF"
            /\ Steps[s].violations_found = <<>> <=> RecordedMVDs(current_tables) = 0

\* The normal form the analysis reached: the last step's to_nf, or the
\* classified level when there is no step.
ReachedNormalForm ==
    IF Steps = <<>> THEN result[1].current_normal_form ELSE Steps[Len(Steps)].to_nf

\* C18: is_fully_normalized() is true exactly when the normal form reached
\* equals target_normal_form, and it is true of the result of a table that
\* is classified 5NF.
C18_FullyNormalizedAtTarget ==
    Returns =>
        /\ is_fully_normalized(result[1])
              <=> ReachedNormalForm = result[1].target_normal_form
        /\ result[1].current_normal_form = "FIFTH_NF" => is_fully_normalized(result[1])

\* C19: once the engine is built on a table of two rows or more that came
\* without FDs, or without candidate keys, or without a primary key, the
\* detector has run and the working table carries what it returned: its FDs,
\* its MVDs, its keys as candidate keys and its first key as primary key.
C19_DetectedWhenAbsent ==
    (/\ pc = "ready"
     /\ Len(input.data) >= MinRows
     /\ \/ input.functional_dependencies = <<>>
        \/ input.candidate_keys = <<>>
        \/ input.primary_key = {}) =>
        /\ detection # <<>>
        /\ heap[1].functional_dependencies = detection[1].fds
        /\ heap[1].multi_valued_dependencies = detection[1].mvds
        /\ heap[1].candidate_keys = detection[1].keys
        /\ detection[1].keys # <<>> => heap[1].primary_key = detection[1].keys[1]

\* C20: the original_table of every result is an object that neither
\* final_tables nor any step's tables_created holds, and from construction
\* on its fields are those of the input table as the caller built it.
C20_OriginalTableIsSnapshot ==
    /\ pc = "ready" => heap[original_table] = input
    /\ Returns =>
          /\ result[1].original_table = original_table
          /\ \A t \in DOMAIN result[1].final_tables :
                result[1].final_tables[t] # result[1].original_table
          /\ \A s \in DOMAIN Steps : \A t \in DOMAIN Steps[s].tables_created :
                Steps[s].tables_created[t] # result[1].original_table

\* analyze() has run twice on an engine whose construction stored detected
\* dependencies into the caller's table, and a transition created a table.
C20_Witness ==
    /\ Returns
    /\ runs = 2
    /\ heap[1] # input
    /\ Len(result[1].final_tables) > 1

\* The tables of final_tables that a transition created: every one but the
\* caller's object.
Materialized ==
    {result[1].final_tables[t] : t \in DOMAIN result[1].final_tables} \ {1}

\* C22: every table a transition created is the target of a foreign key of
\* some table of final_tables: an entry column -> (table name, column) with
\* the column in the referring table and the referenced column in the
\* created one.
C22_MaterializedTablesReferenced ==
    Returns =>
        \A new \in Materialized :
            \E t \in DOMAIN result[1].final_tables :
                \E fk \in heap[result[1].final_tables[t]].foreign_keys :
                    /\ fk.column \in Range(heap[result[1].final_tables[t]].columns)
                    /\ fk.ref_table = heap[new].name
                    /\ fk.ref_column \in Range(heap[new].columns)

\* C23: the steps of a result form a chain: the first starts at the
\* classified normal form, each later one starts where the one before it
\* ended, and each ends one level above its start.
C23_StepsFormChain ==
    (Returns /\ Steps # <<>>) =>
        /\ Steps[1].from_nf = result[1].current_normal_form
        /\ \A s \in DOMAIN Steps :
              /\ s > 1 => Steps[s].from_nf = Steps[s - 1].to_nf
              /\ Level(Steps[s].to_nf) = Level(Steps[s].from_nf) + 1

\* C24: on every table the 1NF classifier answers False exactly when the
\* 1NF transition finds a violation.
C24_ClassifierAgreesWithTransition ==
    (classified_1nf # <<>> /\ reported_1nf # <<>>) =>
        (classified_1nf[1] = FALSE <=> reported_1nf[1] # <<>>)

\* The transition of analyze() that yields level nf, applied to the engine.
NormalizeTo(nf, self, ord) ==
    CASE nf = "FIRST_NF"  -> _normalize_to_1nf(self, ord)
      [] nf = "SECOND_NF" -> _normalize_to_2nf(self, ord)
      [] nf = "THIRD_NF"  -> _normalize_to_3nf(self, ord)
      [] nf = "BCNF"      -> _normalize_to_bcnf(self, ord)
      [] nf = "FOURTH_NF" -> _normalize_to_4nf(self, ord)
      [] nf = "FIFTH_NF"  -> _normalize_to_5nf(self, ord)

\* self.current_tables as each transition of one analyze() leaves it, one
\* entry per step appended: the run is followed block by block from block k
\* on, nf being the local current_nf; r is what the transition of block k
\* returned and left.
RECURSIVE WorkingSets(_, _, _, _)
WorkingSetsFrom(r, nf, k, ord) ==
    <<r.current_tables>>
        \o WorkingSets([heap |-> r.heap, current_tables |-> r.current_tables],
                       nf, k + 1, ord)

WorkingSets(self, nf, k, ord) ==
    IF k > Len(NormalFormOrder)
    THEN <<>>
    ELSE IF ValueLess(nf, NormalFormOrder[k])
         THEN WorkingSetsFrom(NormalizeTo(NormalFormOrder[k], self, ord),
                              NormalFormOrder[k], k, ord)
         ELSE WorkingSets(self, nf, k + 1, ord)

\* The tables_created of the steps are the working sets `sets`, step by
\* step, and that of the last step is final.
TablesCreatedAre(steps, sets, final) ==
    /\ Len(sets) = Len(steps)
    /\ \A s \in DOMAIN steps : steps[s].tables_created = sets[s]
    /\ steps # <<>> => steps[Len(steps)].tables_created = final

\* C25: in every analyze() run each step's tables_created is the working
\* table set as the step's transition left it, and the last step's
\* tables_created is final_tables.
C25_TablesCreatedIsWorkingSet ==
    [][(runs' = runs + 1) =>
          TablesCreatedAre(result'[1].normalization_steps,
                           WorkingSets([heap |-> heap, current_tables |-> current_tables],
                                       result'[1].current_normal_form, 2, hash_order'),
                           result'[1].final_tables)]_vars

\* A run in which a transition after the first step changed the working set.
C25_Witness ==
    /\ Returns
    /\ \E s \in DOMAIN Steps :
          /\ s > 1
          /\ Steps[s].tables_created # Steps[s - 1].tables_created
          /\ Steps[Len(Steps)].tables_created = current_tables

\* C27: once the engine is constructed, a non-empty primary key of the
\* working table is one of the table's candidate keys.
C27_PrimaryKeyIsCandidateKey ==
    (pc = "ready" /\ runs = 0) =>
        LET table == heap[current_tables[1]]
        IN  table.primary_key # {} =>
                \E k \in DOMAIN table.candidate_keys :
                    table.candidate_keys[k] = table.primary_key

\* The FD the table at position i of final_tables was built from, as
\* _create_table_from_fd lays it down: the determinant is the primary key
\* and the columns are those of determinant and dependent.
FinalColumns(i) == Range(heap[result[1].final_tables[i]].columns)
FinalKey(i) == heap[result[1].final_tables[i]].primary_key

\* C28: after the first analyze() run no two of the tables materialized
\* into final_tables come from one FD, so that no two of them have the same
\* key and column set: an FD the 2NF transition extracted is not extracted
\* again by the 3NF transition.
C28_EachFDMaterializedOnce ==
    (Returns /\ runs = 1) =>
        \A i, j \in DOMAIN result[1].final_tables :
            (i # j /\ result[1].final_tables[i] # 1 /\ result[1].final_tables[j] # 1)
                => (FinalColumns(i) # FinalColumns(j) \/ FinalKey(i) # FinalKey(j))

\* C29: after an analyze() run the tables of final_tables have pairwise
\* distinct names.
C29_TableNamesDistinct ==
    Returns =>
        \A i, j \in DOMAIN result[1].final_tables :
            i # j => heap[result[1].final_tables[i]].name
                        # heap[result[1].final_tables[j]].name

\* The least superset of start that holds the dependent of every FD of fds
\* whose determinant it holds.
RECURSIVE FullClosure(_, _)
FullClosure(start, fds) ==
    LET reached == UNION {fds[i].dependent :
                            i \in {j \in DOMAIN fds : fds[j].determinant \subseteq start}}
    IN  IF reached \subseteq start THEN start ELSE FullClosure(start \cup reached, fds)

\* C26: on every start set and FD list the closure loop of the key search
\* ends with the full closure of the start set.
C26_ClosureIsFull ==
    closure # <<>> => closure[1] = FullClosure(closure_start, hypotheses)

-----------------------------------------------------------------------------
(* The routes *)

\* Every entry of analysis_cache was put there by a handler that holds its
\* analysis result and whose three artifacts are written.
CachedAfterArtifacts ==
    \A id \in DOMAIN analysis_cache :
        /\ requests[id].analysis_result = <<analysis_cache[id].result>>
        /\ {analysis_cache[id].report_path, analysis_cache[id].sql_path,
            analysis_cache[id].excel_path} \subseteq output_folder

\* A step in which an analyze request is answered 500 leaves analysis_cache
\* as it was, with no entry of that request in it.
FailureLeavesCache ==
    \A r \in DOMAIN requests :
        (requests[r].response = 0 /\ requests'[r].response = 500) =>
            /\ analysis_cache' = analysis_cache
            /\ r \notin DOMAIN analysis_cache

\* No step modifies or removes an entry of analysis_cache.
EntriesKept ==
    \A id \in DOMAIN analysis_cache :
        /\ id \in DOMAIN analysis_cache'
        /\ analysis_cache'[id] = analysis_cache[id]

\* A status or download request for an id that is not in analysis_cache is
\* answered 404.
UnknownIdNotFound ==
    (Len(requests') = Len(requests) + 1 /\ requests'[Len(requests')].route # "analyze") =>
        (requests'[Len(requests')].id \notin DOMAIN analysis_cache =>
            requests'[Len(requests')].response = 404)

\* C30: analysis_cache gets an entry only once the analysis and the three
\* artifacts are produced; a request whose stage raises is answered 500
\* and leaves the cache unchanged; no request modifies or removes an entry;
\* a status or download request for an id outside the cache is answered 404.
C30_CacheHoldsCompletedAnalyses ==
    /\ []CachedAfterArtifacts
    /\ [][FailureLeavesCache /\ EntriesKept /\ UnknownIdNotFound]_vars

\* One analyze request is cached and answered 200 while another one, whose
\* analysis had returned, has raised in a generator and is answered 500.
C30_Witness ==
    \E r1, r2 \in DOMAIN requests :
        /\ r1 \in DOMAIN analysis_cache
        /\ requests[r1].response = 200
        /\ requests[r2].route = "analyze"
        /\ requests[r2].response = 500
        /\ requests[r2].analysis_result # <<>>
        /\ r2 \notin DOMAIN analysis_cache

-----------------------------------------------------------------------------
(* Runs compared *)

\* C21: on one input the detector can return one result only, and analyze()
\* on the engine built returns the same steps, tables and table names in
\* every process, whatever order the process iterates its sets in.
C21_RunsAgree ==
    /\ pc = "new" =>
          \A d1, d2 \in detect_all_dependencies(input) : d1 = d2
    /\ pc = "ready" /\ runs = 0 =>
          \A o1, o2 \in HashOrders(heap[1]) :
              analyze([heap |-> heap, current_tables |-> current_tables],
                      original_table, o1)
                = analyze([heap |-> heap, current_tables |-> current_tables],
                          original_table, o2)

====
